---- MODULE Spec2Model ----
(***************************************************************************)
(* Model of src/wcnf.py: the WCNFFormula class (variable counter, hard and *)
(* soft clause lists, cached sum of soft weights), its DIMACS writer and   *)
(* parser, and the 1,3-WPM normalisation to_13wpm.                         *)
(*                                                                         *)
(* A formula object is a record with the fields of WCNFFormula.__init__.   *)
(* A soft item is the pair <<weight, literals>> (Python's (weight,         *)
(* literals), so item[1] is the weight and item[2] the literal list).      *)
(* Methods are operators from a formula record to an outcome record        *)
(* [formula, status, ...]: status is "ok" or the name of the exception     *)
(* that the method raises, and formula is the object as the call left it.  *)
(***************************************************************************)
EXTENDS Integers, Sequences, FiniteSets, TLC

VARIABLES
    formula,    \* the WCNFFormula object the client owns
    result,     \* the call the client has just made, and its outcome
    text,       \* the DIMACS stream handed to load_from_stream
    pc,         \* position of the client
    heap        \* the list and formula objects, where object identity matters

vars == <<formula, result, text, pc, heap>>

-----------------------------------------------------------------------------
(* Bounds of the model.                                                    *)

MaxVars == 2        \* cap on num_vars while building
MaxClauses == 2     \* cap on len(hard) + len(soft) while building
MaxTokens == 4      \* longest clause line of a parsed stream
MaxToken == 2       \* largest integer in a parsed stream
SplitVars == 5      \* largest num_vars of a formula with one long clause

TOP_WEIGHT == 0

-----------------------------------------------------------------------------
(* Helpers.                                                                *)

Abs(x) == IF x < 0 THEN -x ELSE x

Max(a, b) == IF a < b THEN b ELSE a

\* seq[from:] of Python, with from a 0-based index
SliceFrom(seq, from) == [i \in 1..Max(0, Len(seq) - from) |-> seq[i + from]]

\* seq[:upto] of Python
SliceTo(seq, upto) == [i \in 1..(IF Len(seq) < upto THEN Len(seq) ELSE upto) |-> seq[i]]

\* [x] * n of Python (empty when n <= 0)
Repeat(x, n) == [i \in 1..Max(0, n) |-> x]

RECURSIVE SumWeights(_)
SumWeights(items) ==
    IF items = <<>> THEN 0 ELSE items[1][1] + SumWeights(Tail(items))

-----------------------------------------------------------------------------
(* WCNFFormula.                                                            *)

WCNFFormula ==
    [num_vars |-> 0, hard |-> <<>>, soft |-> <<>>,
     sum_soft_weights |-> 0, header |-> <<>>]

num_clauses(f) == Len(f.hard) + Len(f.soft)

top_weight(f) == f.sum_soft_weights + 1

clean(f) == WCNFFormula

\* _check_literals: the 1-based position of the literal at which the loop
\* raises WCNFException, 0 when the loop completes.
RECURSIVE check_from(_, _, _)
check_from(f, literals, i) ==
    IF i > Len(literals) THEN 0
    ELSE IF Abs(literals[i]) = 0 THEN i
    ELSE IF f.num_vars < Abs(literals[i]) THEN i
    ELSE check_from(f, literals, i + 1)

\* Variant: only the first literal is checked.
check_first_only(f, literals) ==
    IF literals = <<>> THEN 0 ELSE check_from(f, <<literals[1]>>, 1)

_check_literals(f, literals) == check_from(f, literals, 1)

\* Variant: the cached sum counts the soft clauses instead of their weights.
_add_clause_count(f, literals, weight) ==
    IF weight < 1
    THEN [f EXCEPT !.hard = Append(@, literals)]
    ELSE [f EXCEPT !.soft = Append(@, <<weight, literals>>),
                   !.sum_soft_weights = @ + 1]

_add_clause(f, literals, weight) ==
    IF weight < 1
    THEN [f EXCEPT !.hard = Append(@, literals)]
    ELSE [f EXCEPT !.soft = Append(@, <<weight, literals>>),
                   !.sum_soft_weights = @ + weight]

\* Variant: the clause is appended before its literals are checked.
add_clause_append_first(f, literals, weight) ==
    LET g == _add_clause(f, literals, weight)
        at == _check_literals(g, literals)
    IN  [formula |-> g,
         status |-> IF at # 0 THEN "WCNFException" ELSE "ok", at |-> at]

add_clause(f, literals, weight) ==
    LET at == _check_literals(f, literals)
    IN  IF at # 0
        THEN [formula |-> f, status |-> "WCNFException", at |-> at]
        ELSE [formula |-> _add_clause(f, literals, weight),
              status |-> "ok", at |-> 0]

\* add_clauses: the loop over clauses, from clause number i on; done counts
\* the clauses appended when the call returns or raises.
RECURSIVE add_clauses_from(_, _, _, _)
add_clauses_from(f, clauses, weight, i) ==
    IF i > Len(clauses)
    THEN [formula |-> f, status |-> "ok", done |-> i - 1]
    ELSE LET r == add_clause(f, clauses[i], weight)
         IN  IF r.status # "ok"
             THEN [formula |-> r.formula, status |-> r.status, done |-> i - 1]
             ELSE add_clauses_from(r.formula, clauses, weight, i + 1)

\* Variant: the loop goes on past a clause that raises.
add_clauses_skip_bad(f, clauses, weight) ==
    LET good == SelectSeq(clauses, LAMBDA c : _check_literals(f, c) = 0)
        r == add_clauses_from(f, good, weight, 1)
    IN  [formula |-> r.formula,
         status |-> IF Len(good) = Len(clauses) THEN "ok" ELSE "WCNFException",
         done |-> r.done]

add_clauses(f, clauses, weight) == add_clauses_from(f, clauses, weight, 1)

extend_vars(f, how_many) ==
    IF how_many < 0
    THEN [formula |-> f, status |-> "ValueError"]
    ELSE [formula |-> [f EXCEPT !.num_vars = @ + how_many], status |-> "ok"]

new_var(f) ==
    [formula |-> [f EXCEPT !.num_vars = @ + 1], ret |-> f.num_vars + 1]

is_13wpm(f, strict) ==
    LET soft_ok == \A i \in 1..Len(f.soft) : Len(f.soft[i][2]) = 1
        hard_ok == \A i \in 1..Len(f.hard) :
                      \/ Len(f.hard[i]) = 3
                      \/ Len(f.hard[i]) < 3 /\ ~strict
    IN  soft_ok /\ hard_ok


-----------------------------------------------------------------------------
(* The 1,3-WPM normalisation.                                              *)

\* _hard_to_len_3 on formula object f. An empty clause makes clause[0]
\* raise IndexError before anything is added.
RECURSIVE hard_to_len_3_rec(_, _)
hard_to_len_3_rec(f, clause) ==
    IF Len(clause) <= 3
    THEN IF clause = <<>>
         THEN [formula |-> f, status |-> "IndexError"]
         ELSE LET additionals == Repeat(clause[1], 3 - Len(clause))
                  r == add_clause(f, clause \o additionals, 0)
              IN  [formula |-> r.formula, status |-> r.status]
    ELSE LET v == new_var(f)
             r == add_clause(v.formula, SliceTo(clause, 2) \o <<v.ret>>, 0)
         IN  IF r.status # "ok"
             THEN [formula |-> r.formula, status |-> r.status]
             ELSE hard_to_len_3_rec(r.formula,
                                    <<-v.ret>> \o SliceFrom(clause, 2))

\* Variant: the split keeps three literals of the clause and continues
\* with the rest (clause[:3] / clause[3:] instead of clause[:2] / clause[2:]).
RECURSIVE hard_to_len_3_by3(_, _)
hard_to_len_3_by3(f, clause) ==
    IF Len(clause) <= 3
    THEN IF clause = <<>>
         THEN [formula |-> f, status |-> "IndexError"]
         ELSE LET additionals == Repeat(clause[1], 3 - Len(clause))
                  r == add_clause(f, clause \o additionals, 0)
              IN  [formula |-> r.formula, status |-> r.status]
    ELSE LET v == new_var(f)
             r == add_clause(v.formula, SliceTo(clause, 2) \o <<v.ret>>, 0)
         IN  IF r.status # "ok"
             THEN [formula |-> r.formula, status |-> r.status]
             ELSE hard_to_len_3_by3(r.formula,
                                    <<-v.ret>> \o SliceFrom(clause, 3))

_hard_to_len_3(f, clause) == hard_to_len_3_rec(f, clause)

\* Variant: every soft clause gets a reification variable, the unit ones
\* included.
RECURSIVE soft_to_len_1_reify_all(_, _, _)
soft_to_len_1_reify_all(formula1, soft, i) ==
    IF i > Len(soft) THEN [formula |-> formula1, status |-> "ok"]
    ELSE LET clause == soft[i]
             v == new_var(formula1)
             reif_var == v.ret
             r1 == add_clause(v.formula, <<-reif_var>>, clause[1])
             r2 == add_clause(r1.formula, clause[2] \o <<reif_var>>, 0)
         IN  IF r1.status # "ok"
             THEN [formula |-> r1.formula, status |-> r1.status]
             ELSE IF r2.status # "ok"
             THEN [formula |-> r2.formula, status |-> r2.status]
             ELSE soft_to_len_1_reify_all(r2.formula, soft, i + 1)

\* to_13wpm, first loop: the soft clauses of self into formula1, from item i.
RECURSIVE soft_to_len_1(_, _, _)
soft_to_len_1(formula1, soft, i) ==
    IF i > Len(soft) THEN [formula |-> formula1, status |-> "ok"]
    ELSE LET clause == soft[i]
         IN  IF Len(clause[2]) = 1
             THEN LET r == add_clause(formula1, clause[2], clause[1])
                  IN  IF r.status # "ok"
                      THEN [formula |-> r.formula, status |-> r.status]
                      ELSE soft_to_len_1(r.formula, soft, i + 1)
             ELSE LET v == new_var(formula1)
                      reif_var == v.ret
                      r1 == add_clause(v.formula, <<-reif_var>>, clause[1])
                      r2 == add_clause(r1.formula, clause[2] \o <<reif_var>>, 0)
                  IN  IF r1.status # "ok"
                      THEN [formula |-> r1.formula, status |-> r1.status]
                      ELSE IF r2.status # "ok"
                      THEN [formula |-> r2.formula, status |-> r2.status]
                      ELSE soft_to_len_1(r2.formula, soft, i + 1)

\* to_13wpm, "Bulk add soft clauses" loop into formula13.
RECURSIVE copy_soft(_, _, _)
copy_soft(formula13, soft, i) ==
    IF i > Len(soft) THEN [formula |-> formula13, status |-> "ok"]
    ELSE LET r == add_clause(formula13, soft[i][2], soft[i][1])
         IN  IF r.status # "ok"
             THEN [formula |-> r.formula, status |-> r.status]
             ELSE copy_soft(r.formula, soft, i + 1)

\* to_13wpm, "Hard clauses to length 3" loop into formula13.
RECURSIVE split_hard(_, _, _)
split_hard(formula13, hard, i) ==
    IF i > Len(hard) THEN [formula |-> formula13, status |-> "ok"]
    ELSE LET r == _hard_to_len_3(formula13, hard[i])
         IN  IF r.status # "ok"
             THEN [formula |-> r.formula, status |-> r.status]
             ELSE split_hard(r.formula, hard, i + 1)

\* to_13wpm: [status, out]; out is the returned formula13 when status is
\* "ok" and an empty formula when an exception leaves nothing returned.
to_13wpm(self) ==
    LET a0 == extend_vars(WCNFFormula, self.num_vars).formula
        a1 == soft_to_len_1(a0, self.soft, 1)
        a2 == add_clauses(a1.formula, self.hard, TOP_WEIGHT)
        b0 == extend_vars(WCNFFormula, a2.formula.num_vars).formula
        b1 == copy_soft(b0, a2.formula.soft, 1)
        b2 == split_hard(b1.formula, a2.formula.hard, 1)
        status == IF a1.status # "ok" THEN a1.status
                  ELSE IF a2.status # "ok" THEN a2.status
                  ELSE IF b1.status # "ok" THEN b1.status
                  ELSE b2.status
    IN  [status |-> status,
         out |-> IF status = "ok" THEN b2.formula ELSE WCNFFormula]

-----------------------------------------------------------------------------
(* DIMACS text.                                                            *)
(*                                                                         *)
(* A stream is a sequence of lines; a line is the record of its tokens     *)
(* after strip() and split():                                              *)
(*   [kind |-> "c"]    a line that starts with "c" (a comment)             *)
(*   [kind |-> "p"]    a line whose first token is "p"; fmt is its second  *)
(*                     token and values the integers that follow           *)
(*   [kind |-> "int"]  a line of integer tokens, values                    *)
(* str() of an integer followed by int() gives the integer back, so an     *)
(* integer token is kept as its value; what the writer lays out and the    *)
(* parser takes apart is the token sequence of each line.                  *)

CommentLine == [kind |-> "c", fmt |-> "", values |-> <<>>]

PreambleLine(fmt, values) == [kind |-> "p", fmt |-> fmt, values |-> values]

IntLine(values) == [kind |-> "int", fmt |-> "", values |-> values]

\* Variant: the top written is the sum of the soft weights, without the + 1.
write_dimacs_top_sum(self) ==
    LET top == self.sum_soft_weights
    IN  [i \in 1..Len(self.header) |-> CommentLine]
        \o <<PreambleLine("wcnf", <<self.num_vars, num_clauses(self), top>>)>>
        \o <<CommentLine>>
        \o [i \in 1..Len(self.hard) |->
              IntLine(<<top>> \o self.hard[i] \o <<0>>)]
        \o <<CommentLine>>
        \o [i \in 1..Len(self.soft) |->
              IntLine(<<self.soft[i][1]>> \o self.soft[i][2] \o <<0>>)]

\* write_dimacs: the lines printed for formula self
write_dimacs(self) ==
    LET top == top_weight(self)
    IN  [i \in 1..Len(self.header) |-> CommentLine]
        \o <<PreambleLine("wcnf", <<self.num_vars, num_clauses(self), top>>)>>
        \o <<CommentLine>>
        \o [i \in 1..Len(self.hard) |->
              IntLine(<<top>> \o self.hard[i] \o <<0>>)]
        \o <<CommentLine>>
        \o [i \in 1..Len(self.soft) |->
              IntLine(<<self.soft[i][1]>> \o self.soft[i][2] \o <<0>>)]

\* [list(g) for k, g in itertools.groupby(values, lambda x: x == 0) if not k]:
\* the maximal runs of non-zero values, in order. cur is the run being read.
RECURSIVE groupby_nonzero(_, _, _)
groupby_nonzero(values, i, cur) ==
    IF i > Len(values)
    THEN IF cur = <<>> THEN <<>> ELSE <<cur>>
    ELSE IF values[i] = 0
    THEN (IF cur = <<>> THEN <<>> ELSE <<cur>>)
         \o groupby_nonzero(values, i + 1, <<>>)
    ELSE groupby_nonzero(values, i + 1, Append(cur, values[i]))

raw_clauses(values) == groupby_nonzero(values, 1, <<>>)

\* get_clause of load_from_stream: <<w, c>>
get_clause(top, values) ==
    IF top > 0 THEN <<values[1], Tail(values)>> ELSE <<1, values>>

RECURSIVE MaxAbs(_)
MaxAbs(c) ==
    IF c = <<>> THEN 0 ELSE Max(Abs(c[1]), MaxAbs(Tail(c)))

\* The body of "for r_clause in raw_clauses", from run i of the line on.
RECURSIVE load_clauses(_, _, _, _)
load_clauses(f, top, runs, i) ==
    IF i > Len(runs) THEN [formula |-> f, status |-> "ok"]
    ELSE LET wc == get_clause(top, runs[i])
             w == wc[1]
             c == wc[2]
         IN  IF c = <<>>
             THEN [formula |-> f, status |-> "WCNFException"]
             ELSE LET highest_var == MaxAbs(c)
                      g == [f EXCEPT !.num_vars = Max(@, highest_var)]
                      r == add_clause(g, c, IF w = top THEN TOP_WEIGHT ELSE w)
                  IN  IF r.status # "ok"
                      THEN [formula |-> r.formula, status |-> r.status]
                      ELSE load_clauses(r.formula, top, runs, i + 1)

\* The loop over the lines of the stream, from line i on. st is the record
\* of the locals f_type, n_clauses, n_vars, top and formula; f_type "" is
\* None.
RECURSIVE load_lines(_, _, _)
load_lines(lines, i, st) ==
    IF i > Len(lines) THEN [st EXCEPT !.status = "ok"]
    ELSE LET l == lines[i]
         IN  IF l.kind = "c" THEN load_lines(lines, i + 1, st)
             ELSE IF l.kind = "p" /\ st.f_type = ""
             THEN IF Len(l.values) >= 2 /\ Len(l.values) <= 3
                  THEN IF l.fmt = "cnf"
                       THEN load_lines(lines, i + 1,
                              [st EXCEPT !.f_type = l.fmt,
                                         !.n_vars = l.values[1],
                                         !.n_clauses = l.values[2]])
                       ELSE IF l.fmt = "wcnf"
                       THEN IF Len(l.values) < 3
                            THEN [st EXCEPT !.f_type = l.fmt,
                                            !.status = "IndexError"]
                            ELSE load_lines(lines, i + 1,
                                   [st EXCEPT !.f_type = l.fmt,
                                              !.n_vars = l.values[1],
                                              !.n_clauses = l.values[2],
                                              !.top = l.values[3]])
                       ELSE [st EXCEPT !.f_type = l.fmt,
                                       !.status = "WCNFException"]
                  ELSE [st EXCEPT !.status = "WCNFException"]
             ELSE IF st.f_type # ""
             THEN IF l.kind = "p"
                  THEN [st EXCEPT !.status = "ValueError"]
                  ELSE LET r == load_clauses(st.formula, st.top,
                                             raw_clauses(l.values), 1)
                       IN  IF r.status # "ok"
                           THEN [st EXCEPT !.formula = r.formula,
                                           !.status = r.status]
                           ELSE load_lines(lines, i + 1,
                                           [st EXCEPT !.formula = r.formula])
             ELSE [st EXCEPT !.status = "WCNFException"]

\* load_from_stream: [status, out]; out is the returned formula when status
\* is "ok" and the formula under construction when an exception is raised.
load_from_stream(stream, strict) ==
    LET st == load_lines(stream, 1,
                [f_type |-> "", n_clauses |-> -1, n_vars |-> -1, top |-> -1,
                 formula |-> WCNFFormula, status |-> "ok"])
    IN  IF st.status # "ok" THEN [status |-> st.status, out |-> st.formula]
        ELSE IF strict /\ st.formula.num_vars # st.n_vars
        THEN [status |-> "ValueError", out |-> st.formula]
        ELSE IF strict /\ num_clauses(st.formula) # st.n_clauses
        THEN [status |-> "ValueError", out |-> st.formula]
        ELSE [status |-> "ok", out |-> st.formula]

-----------------------------------------------------------------------------
(* The client: calls on one formula object.                                *)
(*                                                                         *)
(* pc = "build"   the client is between two calls on the formula           *)
(* pc = "called"  a call has just returned or raised; result holds         *)
(*                [op, args, before, status, ret, out]: the method, its    *)
(*                arguments, the formula as it was before the call, "ok"   *)
(*                or the exception, the returned number and the returned   *)
(*                formula object                                           *)
(* pc = "stream"  a DIMACS stream is at hand (text)                        *)
(* pc = "loaded"  load_from_stream has returned or raised on text          *)

\* Literal lists handed to add_clause: empty, unit, with a 0, with an
\* unallocated variable, with the offending literal after a valid one,
\* and clauses of three and four literals.
ClauseInputs ==
    { <<>>, <<1>>, <<0>>, <<1, 0>>, <<1, 3>>, <<-1, 2>>,
      <<1, -2, 2>>, <<1, 2, -1, -2>> }

WeightInputs == {-1, TOP_WEIGHT, 1, 2}

\* Clause sequences handed to add_clauses
BatchClauses == { <<1>>, <<-1, 1>>, <<0>> }

BatchInputs == UNION { [1..n -> BatchClauses] : n \in 0..3 }

Call(op, args, before, status, ret, out) ==
    [op |-> op, args |-> args, before |-> before, status |-> status,
     ret |-> ret, out |-> out]

NoCall == Call("none", <<>>, WCNFFormula, "ok", 0, WCNFFormula)

Init ==
    /\ formula = WCNFFormula
    /\ result = NoCall
    /\ text = <<>>
    /\ pc = "build"
    /\ heap = <<>>

NewVar ==
    /\ pc = "build"
    /\ formula.num_vars < MaxVars
    /\ LET r == new_var(formula)
       IN  /\ formula' = r.formula
           /\ result' = Call("new_var", <<>>, formula, "ok", r.ret, WCNFFormula)
    /\ pc' = "called"
    /\ UNCHANGED <<text, heap>>

ExtendVars(how_many) ==
    /\ pc = "build"
    /\ formula.num_vars + how_many <= MaxVars
    /\ LET r == extend_vars(formula, how_many)
       IN  /\ formula' = r.formula
           /\ result' = Call("extend_vars", <<how_many>>, formula, r.status,
                             0, WCNFFormula)
    /\ pc' = "called"
    /\ UNCHANGED <<text, heap>>

AddClause(literals, weight) ==
    /\ pc = "build"
    /\ LET r == add_clause(formula, literals, weight)
       IN  /\ num_clauses(r.formula) <= MaxClauses
           /\ formula' = r.formula
           /\ result' = Call("add_clause", <<literals, weight>>, formula,
                             r.status, r.at, WCNFFormula)
    /\ pc' = "called"
    /\ UNCHANGED <<text, heap>>

AddClauses(clauses, weight) ==
    /\ pc = "build"
    /\ LET r == add_clauses(formula, clauses, weight)
       IN  /\ num_clauses(r.formula) <= MaxClauses
           /\ formula' = r.formula
           /\ result' = Call("add_clauses", <<clauses, weight>>, formula,
                             r.status, r.done, WCNFFormula)
    /\ pc' = "called"
    /\ UNCHANGED <<text, heap>>

Clean ==
    /\ pc = "build"
    /\ formula' = clean(formula)
    /\ result' = Call("clean", <<>>, formula, "ok", 0, WCNFFormula)
    /\ pc' = "called"
    /\ UNCHANGED <<text, heap>>

\* g = formula.to_13wpm(): the formula object itself is only read.
To13wpm ==
    /\ pc = "build"
    /\ LET r == to_13wpm(formula)
       IN  result' = Call("to_13wpm", <<>>, formula, r.status, 0, r.out)
    /\ pc' = "called"
    /\ UNCHANGED <<formula, text, heap>>

\* The client drops the outcome of the call and goes on.
Return ==
    /\ pc = "called"
    /\ result' = NoCall
    /\ pc' = "build"
    /\ UNCHANGED <<formula, text, heap>>

\* formula.write_dimacs(stream)
WriteDimacs ==
    /\ pc = "build"
    /\ text' = write_dimacs(formula)
    /\ result' = Call("write_dimacs", <<>>, formula, "ok", 0, WCNFFormula)
    /\ pc' = "stream"
    /\ UNCHANGED <<formula, heap>>

\* load_from_stream(stream, strict) on the stream at hand
LoadFromStream(strict) ==
    /\ pc = "stream"
    /\ LET r == load_from_stream(text, strict)
       IN  result' = Call("load_from_stream", <<strict>>, formula, r.status,
                          0, r.out)
    /\ pc' = "loaded"
    /\ UNCHANGED <<formula, text, heap>>

Next ==
    \/ NewVar
    \/ \E how_many \in -1..MaxVars : ExtendVars(how_many)
    \/ \E literals \in ClauseInputs, weight \in WeightInputs :
          AddClause(literals, weight)
    \/ \E clauses \in BatchInputs, weight \in WeightInputs :
          AddClauses(clauses, weight)
    \/ Clean
    \/ To13wpm
    \/ Return
    \/ WriteDimacs
    \/ \E strict \in BOOLEAN : LoadFromStream(strict)

Spec == Init /\ [][Next]_vars

-----------------------------------------------------------------------------
(* The parser on streams that no writer produced: a preamble line, a      *)
(* comment and one clause line of integers.                                *)

TokenInputs == -1..MaxToken

ClauseLineInputs ==
    UNION { [1..n -> TokenInputs] : n \in 0..MaxTokens }

PreambleInputs ==
    { <<PreambleLine("cnf", <<2, 1>>)>>,
      <<PreambleLine("cnf", <<2, 1, 2>>)>>,
      <<PreambleLine("wcnf", <<2, 1>>)>>,
      <<PreambleLine("sat", <<2, 1>>)>>,
      <<PreambleLine("cnf", <<2>>)>>,
      <<PreambleLine("cnf", <<2, 1>>), PreambleLine("cnf", <<2, 1>>)>>,
      <<>> }
    \cup { <<PreambleLine("wcnf", <<2, 1, top>>)>> : top \in TokenInputs }

InitParse ==
    /\ formula = WCNFFormula
    /\ result = NoCall
    /\ pc = "stream"
    /\ heap = <<>>
    /\ \E preamble \in PreambleInputs, values \in ClauseLineInputs :
          text = preamble \o <<CommentLine, IntLine(values)>>

NextParse == \E strict \in BOOLEAN : LoadFromStream(strict)

SpecParse == InitParse /\ [][NextParse]_vars

-----------------------------------------------------------------------------
(* to_13wpm on a formula whose only clause is a hard clause of five        *)
(* literals, as add_clause(literals, TOP_WEIGHT) leaves it after           *)
(* extend_vars(n). The literals are of either sign, their variables in     *)
(* non-decreasing order (repeated variables included).                     *)

LongClauseInputs(n) ==
    { c \in [1..5 -> (-n..n) \ {0}] :
        \A i \in 1..4 : Abs(c[i]) <= Abs(c[i + 1]) }

InitSplit ==
    /\ result = NoCall
    /\ text = <<>>
    /\ pc = "build"
    /\ heap = <<>>
    /\ \E n \in 1..SplitVars :
       \E literals \in LongClauseInputs(n) :
          formula = add_clause(extend_vars(WCNFFormula, n).formula,
                               literals, TOP_WEIGHT).formula

NextSplit == To13wpm

SpecSplit == InitSplit /\ [][NextSplit]_vars

-----------------------------------------------------------------------------
(* The objects of the program, where identity matters.                     *)
(*                                                                         *)
(* heap is the sequence of the objects allocated so far and a reference is *)
(* a position in it. An object is a Python list (a sequence: of literals,  *)
(* of references to literal lists for a hard list, of <<weight,            *)
(* reference>> pairs for a soft list, of lines for a header) or a          *)
(* WCNFFormula (the record of its fields, with hard, soft and header       *)
(* references to lists). append and the assignment of a field change the   *)
(* object in place, for every holder of a reference to it; a list display, *)
(* + and a slice make a new list. Only the lists that a formula or the     *)
(* client keeps are allocated here, not the operands of a + that are       *)
(* dropped at once.                                                        *)

MaxCalls == 2       \* cap on the calls made on a returned formula

\* Body(value), with value computed once before Body is entered, as an
\* argument of a Python call is.
Bind(value, Body(_)) == CHOOSE out \in { Body(v) : v \in {value} } : TRUE

\* Body(r) when the step r went through, r when it raised
Then(step, Body(_)) ==
    Bind(step, LAMBDA r : IF r.status # "ok" THEN r ELSE Body(r))

alloc(h, object) == [heap |-> Append(h, object), ref |-> Len(h) + 1]

\* WCNFFormula(): a new object with three new empty lists
heap_WCNFFormula(h) ==
    LET hard == Len(h) + 1
        soft == Len(h) + 2
        header == Len(h) + 3
    IN  alloc(h \o << <<>>, <<>>, <<>> >>,
              [num_vars |-> 0, hard |-> hard, soft |-> soft,
               sum_soft_weights |-> 0, header |-> header])

heap_extend_vars(h, self, how_many) ==
    IF how_many < 0
    THEN [heap |-> h, status |-> "ValueError"]
    ELSE [heap |-> [h EXCEPT ![self].num_vars = @ + how_many],
          status |-> "ok"]

heap_new_var(h, self) ==
    [heap |-> [h EXCEPT ![self].num_vars = @ + 1],
     ret |-> h[self].num_vars + 1]

\* _add_clause: literals is the reference the caller passed, stored as is
heap__add_clause(h, self, literals, weight) ==
    IF weight < 1
    THEN [h EXCEPT ![h[self].hard] = Append(@, literals)]
    ELSE [h EXCEPT ![h[self].soft] = Append(@, <<weight, literals>>),
                   ![self].sum_soft_weights = @ + weight]

heap_add_clause(h0, self, literals, weight) ==
    Bind(h0, LAMBDA h :
        IF _check_literals(h[self], h[literals]) # 0
        THEN [heap |-> h, status |-> "WCNFException"]
        ELSE [heap |-> heap__add_clause(h, self, literals, weight),
              status |-> "ok"])

\* add_clauses: the loop over the list object clauses, from item i on
RECURSIVE heap_add_clauses_from(_, _, _, _, _)
heap_add_clauses_from(h0, self, clauses, weight, i) ==
    Bind(h0, LAMBDA h :
        IF i > Len(h[clauses]) THEN [heap |-> h, status |-> "ok"]
        ELSE Then(heap_add_clause(h, self, h[clauses][i], weight),
                  LAMBDA r : heap_add_clauses_from(r.heap, self, clauses,
                                                   weight, i + 1)))

heap_add_clauses(h, self, clauses, weight) ==
    heap_add_clauses_from(h, self, clauses, weight, 1)

\* Variant: a short clause is padded in place (clause += additionals)
\* and the clause object itself is stored.
RECURSIVE heap_hard_to_len_3_in_place(_, _, _)
heap_hard_to_len_3_in_place(h0, self, clause) ==
    Bind(h0, LAMBDA h :
        IF Len(h[clause]) <= 3
        THEN IF h[clause] = <<>>
             THEN [heap |-> h, status |-> "IndexError"]
             ELSE LET additionals ==
                          Repeat(h[clause][1], 3 - Len(h[clause]))
                  IN  heap_add_clause([h EXCEPT ![clause] = @ \o additionals],
                                      self, clause, 0)
        ELSE Bind(heap_new_var(h, self), LAMBDA v :
             Bind(alloc(v.heap, SliceTo(h[clause], 2) \o <<v.ret>>),
                  LAMBDA first :
             Then(heap_add_clause(first.heap, self, first.ref, 0),
                  LAMBDA r :
             Bind(alloc(r.heap, <<-v.ret>> \o SliceFrom(h[clause], 2)),
                  LAMBDA rest :
             heap_hard_to_len_3_in_place(rest.heap, self, rest.ref))))))

\* _hard_to_len_3 on the formula object self and the list object clause:
\* clause + additionals, clause[:2] + [new_var] and [-new_var] + clause[2:]
\* are new lists.
RECURSIVE heap_hard_to_len_3_rec(_, _, _)
heap_hard_to_len_3_rec(h0, self, clause) ==
    Bind(h0, LAMBDA h :
        IF Len(h[clause]) <= 3
        THEN IF h[clause] = <<>>
             THEN [heap |-> h, status |-> "IndexError"]
             ELSE LET additionals ==
                          Repeat(h[clause][1], 3 - Len(h[clause]))
                  IN  Bind(alloc(h, h[clause] \o additionals), LAMBDA padded :
                      heap_add_clause(padded.heap, self, padded.ref, 0))
        ELSE Bind(heap_new_var(h, self), LAMBDA v :
             Bind(alloc(v.heap, SliceTo(h[clause], 2) \o <<v.ret>>),
                  LAMBDA first :
             Then(heap_add_clause(first.heap, self, first.ref, 0),
                  LAMBDA r :
             Bind(alloc(r.heap, <<-v.ret>> \o SliceFrom(h[clause], 2)),
                  LAMBDA rest :
             heap_hard_to_len_3_rec(rest.heap, self, rest.ref))))))

heap_hard_to_len_3(h, self, clause) == heap_hard_to_len_3_rec(h, self, clause)

\* to_13wpm, first loop: the items of the list object soft (self.soft) into
\* formula1, from item i on. A unit clause's literal list goes in as the
\* object it is.
RECURSIVE heap_soft_to_len_1(_, _, _, _)
heap_soft_to_len_1(h0, formula1, soft, i) ==
    Bind(h0, LAMBDA h :
        IF i > Len(h[soft]) THEN [heap |-> h, status |-> "ok"]
        ELSE LET clause == h[soft][i]
             IN  IF Len(h[clause[2]]) = 1
                 THEN Then(heap_add_clause(h, formula1, clause[2], clause[1]),
                           LAMBDA r :
                      heap_soft_to_len_1(r.heap, formula1, soft, i + 1))
                 ELSE Bind(heap_new_var(h, formula1), LAMBDA v :
                      Bind(alloc(v.heap, <<-v.ret>>), LAMBDA unit :
                      Then(heap_add_clause(unit.heap, formula1, unit.ref,
                                           clause[1]),
                           LAMBDA r1 :
                      Bind(alloc(r1.heap, r1.heap[clause[2]] \o <<v.ret>>),
                           LAMBDA reified :
                      Then(heap_add_clause(reified.heap, formula1,
                                           reified.ref, 0),
                           LAMBDA r2 :
                      heap_soft_to_len_1(r2.heap, formula1, soft,
                                         i + 1)))))))

\* to_13wpm, "Bulk add soft clauses" loop over formula1.soft into formula13
RECURSIVE heap_copy_soft(_, _, _, _)
heap_copy_soft(h0, formula13, soft, i) ==
    Bind(h0, LAMBDA h :
        IF i > Len(h[soft]) THEN [heap |-> h, status |-> "ok"]
        ELSE Then(heap_add_clause(h, formula13, h[soft][i][2], h[soft][i][1]),
                  LAMBDA r : heap_copy_soft(r.heap, formula13, soft, i + 1)))

\* to_13wpm, "Hard clauses to length 3" loop over formula1.hard
RECURSIVE heap_split_hard(_, _, _, _)
heap_split_hard(h0, formula13, hard, i) ==
    Bind(h0, LAMBDA h :
        IF i > Len(h[hard]) THEN [heap |-> h, status |-> "ok"]
        ELSE Then(heap_hard_to_len_3(h, formula13, h[hard][i]),
                  LAMBDA r : heap_split_hard(r.heap, formula13, hard, i + 1)))

\* to_13wpm on the formula object self, up to the last loop: [heap, status]
\* with ret the reference to formula13.
heap_to_13wpm_steps(h, self) ==
    Bind(heap_WCNFFormula(h), LAMBDA new1 :
    Then(heap_extend_vars(new1.heap, new1.ref, new1.heap[self].num_vars),
         LAMBDA a0 :
    Then(heap_soft_to_len_1(a0.heap, new1.ref, a0.heap[self].soft, 1),
         LAMBDA a1 :
    Then(heap_add_clauses(a1.heap, new1.ref, a1.heap[self].hard, TOP_WEIGHT),
         LAMBDA a2 :
    Bind(heap_WCNFFormula(a2.heap), LAMBDA new13 :
    Then(heap_extend_vars(new13.heap, new13.ref,
                          new13.heap[new1.ref].num_vars),
         LAMBDA b0 :
    Then(heap_copy_soft(b0.heap, new13.ref, b0.heap[new1.ref].soft, 1),
         LAMBDA b1 :
    Then(heap_split_hard(b1.heap, new13.ref, b1.heap[new1.ref].hard, 1),
         LAMBDA b2 :
    [heap |-> b2.heap, status |-> "ok", ret |-> new13.ref]))))))))

\* to_13wpm on the formula object self: [heap, status, ret]; ret is the
\* reference to formula13, 0 (no object) when an exception is raised, and
\* heap the objects as the call left them.
heap_to_13wpm(h, self) ==
    Bind(heap_to_13wpm_steps(h, self), LAMBDA r :
        [heap |-> r.heap, status |-> r.status,
         ret |-> IF r.status = "ok" THEN r.ret ELSE 0])

\* The fields of the formula object self as a reader of the object finds
\* them: num_vars, the hard clauses, the (weight, literals) soft items, the
\* cached sum and the header, every list followed to its contents.
View(h, self) ==
    [num_vars |-> h[self].num_vars,
     hard |-> [i \in 1..Len(h[h[self].hard]) |-> h[h[h[self].hard][i]]],
     soft |-> [i \in 1..Len(h[h[self].soft]) |->
                 <<h[h[self].soft][i][1], h[h[h[self].soft][i][2]]>>],
     sum_soft_weights |-> h[self].sum_soft_weights,
     header |-> h[h[self].header]]

\* The literal list objects that the formula object self holds
LiteralLists(h, self) ==
    { h[h[self].hard][i] : i \in 1..Len(h[h[self].hard]) }
    \cup { h[h[self].soft][i][2] : i \in 1..Len(h[h[self].soft]) }

-----------------------------------------------------------------------------
(* A client that builds a formula object F, calls F.to_13wpm() and then    *)
(* goes on with new_var and add_clause on the formula it got back.         *)
(*                                                                         *)
(* In this client formula is the reference to F. pc = "build" while F is   *)
(* built; pc = "normalized" once to_13wpm has returned or raised, and then *)
(* result holds: op "to_13wpm", before the fields of F as they were before *)
(* the call, status, out the reference returned (0 when none) and args the *)
(* methods called on the returned formula since.                           *)

HeapClauseInputs == { <<>>, <<1>>, <<-1, 2>>, <<1, 2, -1, 2>> }

HeapWeightInputs == { TOP_WEIGHT, 2 }

HeaderInputs == { <<>>, <<"line">> }

\* Literal lists the client makes for the returned formula
ReturnedClauseInputs == { <<1>>, <<-1, 2>> }

InitHeap ==
    /\ result = NoCall
    /\ text = <<>>
    /\ pc = "build"
    /\ LET new == heap_WCNFFormula(<<>>)
       IN  /\ formula = new.ref
           /\ \E header \in HeaderInputs :
                 heap = [new.heap EXCEPT ![new.heap[new.ref].header] = header]

\* F.new_var()
HeapNewVar ==
    /\ pc = "build"
    /\ heap[formula].num_vars < MaxVars
    /\ heap' = heap_new_var(heap, formula).heap
    /\ UNCHANGED <<formula, result, text, pc>>

\* F.add_clause(literals, weight) with a list the client has just made,
\* for the calls that return.
HeapAddClause(literals, weight) ==
    /\ pc = "build"
    /\ num_clauses(View(heap, formula)) < MaxClauses
    /\ LET made == alloc(heap, literals)
           r == heap_add_clause(made.heap, formula, made.ref, weight)
       IN  /\ r.status = "ok"
           /\ heap' = r.heap
    /\ UNCHANGED <<formula, result, text, pc>>

\* G = F.to_13wpm()
HeapTo13wpm ==
    /\ pc = "build"
    /\ LET r == heap_to_13wpm(heap, formula)
       IN  /\ heap' = r.heap
           /\ result' = Call("to_13wpm", <<>>, View(heap, formula), r.status,
                             0, r.ret)
    /\ pc' = "normalized"
    /\ UNCHANGED <<formula, text>>

\* G.new_var()
ReturnedNewVar ==
    /\ pc = "normalized" /\ result.out # 0
    /\ Len(result.args) < MaxCalls
    /\ heap' = heap_new_var(heap, result.out).heap
    /\ result' = [result EXCEPT !.args = Append(@, "new_var")]
    /\ UNCHANGED <<formula, text, pc>>

\* G.add_clause(literals, weight) with a list the client has just made
ReturnedAddClause(literals, weight) ==
    /\ pc = "normalized" /\ result.out # 0
    /\ Len(result.args) < MaxCalls
    /\ LET made == alloc(heap, literals)
       IN  heap' = heap_add_clause(made.heap, result.out, made.ref,
                                   weight).heap
    /\ result' = [result EXCEPT !.args = Append(@, "add_clause")]
    /\ UNCHANGED <<formula, text, pc>>

\* G.add_clause(c, weight) with c a literal list taken from F
\* (F.hard[i] or F.soft[i][1])
ReturnedAddShared(weight) ==
    /\ pc = "normalized" /\ result.out # 0
    /\ Len(result.args) < MaxCalls
    /\ \E literals \in LiteralLists(heap, formula) :
          heap' = heap_add_clause(heap, result.out, literals, weight).heap
    /\ result' = [result EXCEPT !.args = Append(@, "add_clause")]
    /\ UNCHANGED <<formula, text, pc>>

NextHeap ==
    \/ HeapNewVar
    \/ \E literals \in HeapClauseInputs, weight \in HeapWeightInputs :
          HeapAddClause(literals, weight)
    \/ HeapTo13wpm
    \/ ReturnedNewVar
    \/ \E literals \in ReturnedClauseInputs, weight \in HeapWeightInputs :
          ReturnedAddClause(literals, weight)
    \/ \E weight \in HeapWeightInputs : ReturnedAddShared(weight)

SpecHeap == InitHeap /\ [][NextHeap]_vars

-----------------------------------------------------------------------------
(* What the properties speak about.                                        *)

\* Every stored literal is non-zero and names an allocated variable.
LiteralsAllocated(f) ==
    /\ \A i \in 1..Len(f.hard) : \A j \in 1..Len(f.hard[i]) :
          f.hard[i][j] # 0 /\ Abs(f.hard[i][j]) <= f.num_vars
    /\ \A i \in 1..Len(f.soft) : \A j \in 1..Len(f.soft[i][2]) :
          f.soft[i][2][j] # 0 /\ Abs(f.soft[i][2][j]) <= f.num_vars

\* Some literal of the list is 0 or names a variable above f.num_vars.
HasInvalidLiteral(f, literals) ==
    \E i \in 1..Len(literals) :
        literals[i] = 0 \/ Abs(literals[i]) > f.num_vars

HasEmptyClause(f) ==
    \/ \E i \in 1..Len(f.hard) : f.hard[i] = <<>>
    \/ \E i \in 1..Len(f.soft) : f.soft[i][2] = <<>>

\* The variables that occur in a clause of f
UsedVars(f) ==
    UNION { { Abs(f.hard[i][j]) : j \in 1..Len(f.hard[i]) } :
            i \in 1..Len(f.hard) }
    \cup
    UNION { { Abs(f.soft[i][2][j]) : j \in 1..Len(f.soft[i][2]) } :
            i \in 1..Len(f.soft) }

\* The highest variable that occurs in a clause of f, 0 when none does.
HighestVar(f) ==
    IF UsedVars(f) = {} THEN 0
    ELSE CHOOSE m \in UsedVars(f) : \A u \in UsedVars(f) : u <= m

\* The summed weight of the soft items of f at the positions in S
RECURSIVE WeightOf(_, _)
WeightOf(f, S) ==
    IF S = {} THEN 0
    ELSE LET i == CHOOSE k \in S : TRUE
         IN  f.soft[i][1] + WeightOf(f, S \ {i})

\* The lines write_dimacs prints for the soft clauses of f (the last ones)
SoftLines(f) ==
    LET lines == write_dimacs(f)
    IN  { lines[Len(lines) - Len(f.soft) + i] : i \in 1..Len(f.soft) }

-----------------------------------------------------------------------------
(* Truth assignments and costs. An assignment is the set of the variables  *)
(* it makes true.                                                          *)

Holds(lit, A) == IF lit > 0 THEN lit \in A ELSE (-lit) \notin A

Satisfied(clause, A) == \E i \in 1..Len(clause) : Holds(clause[i], A)

HardSatisfied(f, A) == \A i \in 1..Len(f.hard) : Satisfied(f.hard[i], A)

\* The summed weight of the soft clauses of f that A violates
ViolatedWeight(f, A) ==
    WeightOf(f, { i \in 1..Len(f.soft) : ~Satisfied(f.soft[i][2], A) })

\* The costs of the assignments of f that satisfy its hard clauses
Costs(f) ==
    { ViolatedWeight(f, A) : A \in { B \in SUBSET (1..f.num_vars) :
                                       HardSatisfied(f, B) } }

\* The costs the extensions of A to the variables n+1..g.num_vars reach in g
ExtensionCosts(g, n, A) ==
    { ViolatedWeight(g, A \cup B) :
        B \in { X \in SUBSET ((n + 1)..g.num_vars) :
                  HardSatisfied(g, A \cup X) } }

\* to_13wpm gave g for f, and g keeps the cost of every assignment of f:
\* an assignment of f that satisfies its hard clauses extends to g at the
\* same cost and to no lower one, and one that violates them has no
\* extension that satisfies the hard clauses of g.
CostPreserved(f, g) ==
    /\ Costs(f) = {} <=> Costs(g) = {}
    /\ \A c \in Costs(f) : \E d \in Costs(g) : d <= c
    /\ \A d \in Costs(g) : \E c \in Costs(f) : c <= d
    /\ \A A \in SUBSET (1..f.num_vars) :
          IF HardSatisfied(f, A)
          THEN /\ ViolatedWeight(f, A) \in ExtensionCosts(g, f.num_vars, A)
               /\ \A d \in ExtensionCosts(g, f.num_vars, A) :
                     d >= ViolatedWeight(f, A)
          ELSE ExtensionCosts(g, f.num_vars, A) = {}

-----------------------------------------------------------------------------
(* Properties.                                                             *)

\* C1: to_13wpm completes on every formula that can be built and returns a
\* formula in strict 1,3-WPM form: every soft clause has exactly one
\* literal and every hard clause exactly three.
C1_To13wpmPostcondition ==
    (pc = "called" /\ result.op = "to_13wpm") =>
        /\ result.status = "ok"
        /\ is_13wpm(result.out, TRUE)
        /\ \A i \in 1..Len(result.out.soft) : Len(result.out.soft[i][2]) = 1
        /\ \A i \in 1..Len(result.out.hard) : Len(result.out.hard[i]) = 3

\* C2: to_13wpm is cost-preserving for every formula: the minimum violated
\* soft weight over the assignments satisfying the hard clauses is the same
\* for F and F.to_13wpm(), every assignment of F extends to the auxiliary
\* variables at the same cost, and no assignment of the normalised formula
\* costs less than F's optimum.
C2_CostPreserving ==
    (pc = "called" /\ result.op = "to_13wpm") =>
        /\ result.status = "ok"
        /\ CostPreserved(result.before, result.out)

\* Cost preservation on the calls of to_13wpm that return.
CostPreservedWhenReturned ==
    (pc = "called" /\ result.op = "to_13wpm" /\ result.status = "ok") =>
        CostPreserved(result.before, result.out)

\* C3 as stated: parsing (non-strict) what write_dimacs wrote for a built
\* formula succeeds and gives the same hard clauses, the same (weight,
\* clause) soft pairs and the same num_vars, when no soft weight equals
\* top_weight.
C3_RoundTripIdentity ==
    (/\ pc = "loaded" /\ text = write_dimacs(formula)
     /\ result.args = <<FALSE>>
     /\ \A i \in 1..Len(formula.soft) :
           formula.soft[i][1] # top_weight(formula)) =>
        /\ result.status = "ok"
        /\ result.out.hard = formula.hard
        /\ result.out.soft = formula.soft
        /\ result.out.num_vars = formula.num_vars

\* C3 amended: when no clause of the formula is empty, parsing (non-strict)
\* what write_dimacs wrote succeeds and gives the same hard clauses and the
\* same (weight, clause) soft pairs, with num_vars the highest variable
\* that occurs in a clause (never more than the formula's num_vars); when a
\* clause is empty the parser raises WCNFException.
C3_RoundTripAmended ==
    (/\ pc = "loaded" /\ text = write_dimacs(formula)
     /\ result.args = <<FALSE>>) =>
        IF HasEmptyClause(formula)
        THEN result.status = "WCNFException"
        ELSE /\ result.status = "ok"
             /\ result.out.hard = formula.hard
             /\ result.out.soft = formula.soft
             /\ result.out.sum_soft_weights = formula.sum_soft_weights
             /\ result.out.num_vars = HighestVar(formula)
             /\ result.out.num_vars <= formula.num_vars

C3_Witness ==
    /\ pc = "loaded" /\ text = write_dimacs(formula)
    /\ result.args = <<FALSE>>
    /\ result.status = "ok"
    /\ Len(formula.hard) >= 1 /\ Len(formula.soft) >= 1
    /\ result.out.num_vars < formula.num_vars

\* C4: after any sequence of calls, failing ones included, every literal
\* stored in a formula (the client's, a normalised one, a parsed one) is
\* non-zero with absolute value at most that formula's num_vars; and
\* num_vars decreases only through clean(), which removes every clause.
C4_LiteralsAllocated ==
    /\ [](LiteralsAllocated(formula) /\ LiteralsAllocated(result.out))
    /\ [][formula'.num_vars < formula.num_vars =>
            /\ result'.op = "clean"
            /\ formula'.hard = <<>> /\ formula'.soft = <<>>]_vars

C4_Witness ==
    /\ pc = "called" /\ result.op = "clean"
    /\ result.before.num_vars > 0
    /\ Len(result.before.hard) > 0 /\ Len(result.before.soft) > 0
    /\ formula.num_vars = 0

\* C5: add_clause raises WCNFException whenever a literal is 0 or above
\* num_vars, wherever in the clause it stands, and then leaves num_vars,
\* hard, soft and the cached sum of soft weights as they were.
C5_AddClauseAtomic ==
    (/\ pc = "called" /\ result.op = "add_clause"
     /\ HasInvalidLiteral(result.before, result.args[1])) =>
        /\ result.status = "WCNFException"
        /\ formula = result.before

C5_Witness ==
    /\ pc = "called" /\ result.op = "add_clause"
    /\ result.status = "WCNFException"
    /\ result.ret > 1
    /\ Len(formula.hard) > 0 /\ Len(formula.soft) > 0

\* C6: add_clauses is not atomic: when clause number i is the first invalid
\* one the call raises, exactly the first i-1 clauses have been appended,
\* in order and with the given weight (the sum of soft weights grown by
\* each when weight >= 1), and neither clause i nor a later one is added.
C6_AddClausesPrefix ==
    (pc = "called" /\ result.op = "add_clauses") =>
        LET f == result.before
            clauses == result.args[1]
            weight == result.args[2]
            bad == { i \in 1..Len(clauses) : HasInvalidLiteral(f, clauses[i]) }
        IN  bad # {} =>
              LET first == CHOOSE i \in bad : \A k \in bad : i <= k
                  n == first - 1
              IN  /\ result.status = "WCNFException"
                  /\ formula.num_vars = f.num_vars
                  /\ IF weight >= 1
                     THEN /\ formula.hard = f.hard
                          /\ formula.soft =
                               f.soft \o [i \in 1..n |-> <<weight, clauses[i]>>]
                          /\ formula.sum_soft_weights =
                               f.sum_soft_weights + n * weight
                     ELSE /\ formula.hard = f.hard \o SubSeq(clauses, 1, n)
                          /\ formula.soft = f.soft
                          /\ formula.sum_soft_weights = f.sum_soft_weights

C6_Witness ==
    /\ pc = "called" /\ result.op = "add_clauses"
    /\ result.status = "WCNFException"
    /\ result.ret = 1 /\ Len(result.args[1]) = 3
    /\ ~HasInvalidLiteral(result.before, result.args[1][3])
    /\ result.args[2] >= 1
    /\ Len(result.before.soft) > 0

\* C7: in every reachable state the cached sum of soft weights is the sum
\* of the weights in the soft list, top_weight is that sum plus 1 and is
\* greater than every soft weight and than the total of any subset of soft
\* clauses, so no soft clause is written with the top weight.
C7_TopWeight ==
    /\ formula.sum_soft_weights = SumWeights(formula.soft)
    /\ top_weight(formula) = SumWeights(formula.soft) + 1
    /\ \A i \in 1..Len(formula.soft) :
          formula.soft[i][1] < top_weight(formula)
    /\ \A S \in SUBSET (1..Len(formula.soft)) :
          WeightOf(formula, S) < top_weight(formula)
    /\ \A l \in SoftLines(formula) : l.values[1] # top_weight(formula)

C7_Witness ==
    /\ pc = "called" /\ result.status = "WCNFException"
    /\ Len(formula.soft) = 2
    /\ formula.soft[1][1] # formula.soft[2][1]

-----------------------------------------------------------------------------
(* Properties of the parser.                                               *)

\* The preamble of the stream at hand and the values of its clause line
Preamble == text[1]

ClauseLine == text[Len(text)].values

\* The stream is one well-formed preamble of the given format (with its
\* <top> when weighted), a comment and a clause line.
StreamOf(fmt) ==
    /\ Len(text) = 3
    /\ Preamble.kind = "p" /\ Preamble.fmt = fmt
    /\ Len(Preamble.values) = IF fmt = "wcnf" THEN 3 ELSE 2

\* A 0 of the line that terminates a run with no integer in it
BareZeroRun(values) ==
    \E i \in 1..Len(values) :
        values[i] = 0 /\ (i = 1 \/ values[i - 1] = 0)

\* A 0 of the line that terminates a run holding one integer, the weight
WeightOnlyRun(values) ==
    \E i \in 2..Len(values) :
        /\ values[i] = 0 /\ values[i - 1] # 0
        /\ (i = 2 \/ values[i - 2] = 0)

\* C8: the parser raises its error for every clause with zero literals:
\* a bare 0 run under "p cnf", a weight-only run or a bare 0 run under
\* "p wcnf"; none is skipped or stored.
C8_EmptyClauseRejected ==
    (/\ pc = "loaded"
     /\ \/ StreamOf("cnf") /\ BareZeroRun(ClauseLine)
        \/ StreamOf("wcnf") /\ (BareZeroRun(ClauseLine)
                                \/ WeightOnlyRun(ClauseLine))) =>
        result.status = "WCNFException"

\* Every run of the line holds an integer after its first one
RunsHaveLiterals(values) ==
    \A i \in 1..Len(raw_clauses(values)) : Len(raw_clauses(values)[i]) >= 2

\* What the claim C9 says is stored for the runs of a clause line, from run
\* i on, given as the calls of add_clause it amounts to: under "p wcnf" the
\* first integer of a run is its weight (the hard mark when it equals
\* <top>) and the rest its literals; under "p cnf" the run is the literal
\* list and the weight is 1.
RECURSIVE StoredAsClaimed(_, _, _, _, _)
StoredAsClaimed(f, fmt, top, runs, i) ==
    IF i > Len(runs) THEN f
    ELSE LET w == IF fmt = "wcnf" THEN runs[i][1] ELSE 1
             c == IF fmt = "wcnf" THEN Tail(runs[i]) ELSE runs[i]
             g == [f EXCEPT !.num_vars = Max(@, MaxAbs(c))]
         IN  StoredAsClaimed(
                 _add_clause(g, c, IF fmt = "wcnf" /\ w = top
                                   THEN TOP_WEIGHT ELSE w),
                 fmt, top, runs, i + 1)

\* C9: under "p wcnf <num_vars> <num_clauses> <top>" the first integer of
\* every run is the clause's weight and the others its literals, a run
\* with weight <top> is stored hard and any other with exactly its weight
\* and literals, for every integer weight and <top>; under "p cnf" every
\* run is stored whole with weight 1.
C9_WeightsAndLiterals ==
    (/\ pc = "loaded"
     /\ \/ StreamOf("cnf")
        \/ StreamOf("wcnf") /\ RunsHaveLiterals(ClauseLine)) =>
        LET want == StoredAsClaimed(WCNFFormula, Preamble.fmt,
                        IF Preamble.fmt = "wcnf" THEN Preamble.values[3]
                        ELSE -1,
                        raw_clauses(ClauseLine), 1)
        IN  /\ result.out.hard = want.hard
            /\ result.out.soft = want.soft
            /\ result.args = <<FALSE>> => result.status = "ok"

\* The same with <top> at least 1.
WeightsAndLiteralsPositiveTop ==
    (/\ pc = "loaded"
     /\ \/ StreamOf("cnf")
        \/ /\ StreamOf("wcnf") /\ RunsHaveLiterals(ClauseLine)
           /\ Preamble.values[3] >= 1) =>
        LET want == StoredAsClaimed(WCNFFormula, Preamble.fmt,
                        IF Preamble.fmt = "wcnf" THEN Preamble.values[3]
                        ELSE -1,
                        raw_clauses(ClauseLine), 1)
        IN  /\ result.out.hard = want.hard
            /\ result.out.soft = want.soft
            /\ result.args = <<FALSE>> => result.status = "ok"

-----------------------------------------------------------------------------
(* Properties of the split of one long clause.                             *)

\* The call was to_13wpm on a formula whose only clause is a hard clause of
\* five literals.
OneHardClauseOfFive ==
    /\ pc = "called" /\ result.op = "to_13wpm"
    /\ result.before.soft = <<>>
    /\ Len(result.before.hard) = 1
    /\ Len(result.before.hard[1]) = 5

\* C10 as stated: a formula whose only clause is a hard clause of length 5
\* normalises to exactly two hard clauses of length 3 that share one fresh
\* auxiliary variable, and num_vars grows by exactly 1.
C10_TwoClausesOneVar ==
    OneHardClauseOfFive =>
        LET g == result.out
            aux == result.before.num_vars + 1
        IN  /\ result.status = "ok"
            /\ Len(g.hard) = 2
            /\ Len(g.hard[1]) = 3 /\ Len(g.hard[2]) = 3
            /\ \E i \in 1..3, j \in 1..3 :
                  Abs(g.hard[1][i]) = aux /\ Abs(g.hard[2][j]) = aux
            /\ g.num_vars = result.before.num_vars + 1

\* C10 amended: a formula whose only clause is the hard clause
\* [a, b, c, d, e] over n variables normalises to exactly three hard
\* clauses of length 3, [a, b, n+1], [-(n+1), c, n+2] and [-(n+2), d, e],
\* chained by two fresh auxiliary variables, and num_vars grows by exactly 2.
C10_ThreeClausesTwoVars ==
    OneHardClauseOfFive =>
        LET g == result.out
            c == result.before.hard[1]
            n == result.before.num_vars
        IN  /\ result.status = "ok"
            /\ g.hard = << <<c[1], c[2], n + 1>>,
                           <<-(n + 1), c[3], n + 2>>,
                           <<-(n + 2), c[4], c[5]>> >>
            /\ g.soft = <<>>
            /\ g.num_vars = n + 2

C10_Witness ==
    /\ OneHardClauseOfFive
    /\ result.before.num_vars = 5
    /\ result.before.hard[1] = <<1, 2, 3, 4, 5>>
    /\ result.status = "ok"


-----------------------------------------------------------------------------
(* Properties of the objects.                                              *)

\* The objects agree with the values: to_13wpm on the object F ends as
\* to_13wpm on the fields of F does, and the object it returns has the
\* fields of the formula computed from them.
HeapAgreesWithValues ==
    (pc = "normalized" /\ result.args = <<>>) =>
        LET r == to_13wpm(result.before)
        IN  /\ result.status = r.status
            /\ result.status = "ok" => View(heap, result.out) = r.out
            /\ result.status # "ok" => result.out = 0

\* C11: to_13wpm never mutates its input: once F.to_13wpm() has returned
\* or raised, num_vars, hard, soft, the cached sum of soft weights and
\* header of F are as they were before the call, and they stay so through
\* the new_var and add_clause calls made on the returned formula.
C11_InputUnchanged ==
    pc = "normalized" => View(heap, formula) = result.before

\* to_13wpm has returned a formula that holds a literal list object of F
\* (that of a unit soft clause), F has a hard clause that was padded, and
\* new_var and then add_clause have been called on the returned formula,
\* add_clause storing one more soft clause.
C11_Witness ==
    /\ pc = "normalized" /\ result.status = "ok"
    /\ \E i \in 1..Len(result.before.soft) :
          /\ Len(result.before.soft[i][2]) = 1
          /\ heap[heap[formula].soft][i][2] \in LiteralLists(heap, result.out)
    /\ \E i \in 1..Len(result.before.hard) : Len(result.before.hard[i]) < 3
    /\ result.before.header # <<>>
    /\ result.args = <<"new_var", "add_clause">>
    /\ heap[result.out].num_vars > result.before.num_vars
    /\ Len(heap[heap[result.out].soft]) > Len(result.before.soft)


-----------------------------------------------------------------------------
(* Properties of the variables and weights of a normalised formula.        *)

\* The soft items of f that to_13wpm reifies: those whose length is not 1
NonUnitSoft(f) == SelectSeq(f.soft, LAMBDA item : Len(item[2]) # 1)

\* The lengths of the hard clauses that enter the split, in order: |L| + 1
\* for each reified soft clause, then k for each hard clause of f
SplitLengths(f) ==
    [i \in 1..Len(NonUnitSoft(f)) |-> Len(NonUnitSoft(f)[i][2]) + 1]
    \o [i \in 1..Len(f.hard) |-> Len(f.hard[i])]

\* max(0, k - 3)
FreshVars(k) == Max(0, k - 3)

\* The number of clauses written for a clause of length k
ChainLen(k) == IF k <= 3 THEN 1 ELSE k - 2

RECURSIVE SumOver(_, _, _)
SumOver(F(_), lens, n) ==
    IF n = 0 THEN 0 ELSE F(lens[n]) + SumOver(F, lens, n - 1)

\* The positions in g.hard of the clauses written for entry j of lens
ChainOf(lens, j) ==
    (SumOver(ChainLen, lens, j - 1) + 1)..SumOver(ChainLen, lens, j)

\* The variables above n that occur in the hard clauses of g at positions P
VarsAbove(g, n, P) ==
    { v \in (n + 1)..g.num_vars :
        \E p \in P : \E q \in 1..Len(g.hard[p]) : Abs(g.hard[p][q]) = v }

\* C12: when to_13wpm completes on F, the output's num_vars is F.num_vars
\* plus the number of soft clauses of F of length other than 1 plus the sum
\* of max(0, k - 3) over the hard clauses that enter the split (each hard
\* clause of F, of length k, and each reified clause, of length |L| + 1);
\* every auxiliary variable is above F.num_vars: one per reified soft
\* clause, standing negated as that clause's unit soft clause, and
\* max(0, k - 3) per split, none in the clauses of two splits; and the
\* soft weights of the output are those of F in order, so top_weight is
\* the same.
C12_VariableAccounting ==
    (pc = "called" /\ result.op = "to_13wpm" /\ result.status = "ok") =>
        LET f == result.before
            g == result.out
            lens == SplitLengths(f)
            n1 == f.num_vars + Len(NonUnitSoft(f))
            reif == { i \in 1..Len(f.soft) : Len(f.soft[i][2]) # 1 }
        IN  /\ g.num_vars = f.num_vars + Len(NonUnitSoft(f))
                               + SumOver(FreshVars, lens, Len(lens))
            /\ Len(g.hard) = SumOver(ChainLen, lens, Len(lens))
            /\ \A j \in 1..Len(lens) :
                  /\ Cardinality(VarsAbove(g, n1, ChainOf(lens, j)))
                        = FreshVars(lens[j])
                  /\ \A k \in 1..Len(lens) : j # k =>
                        VarsAbove(g, n1, ChainOf(lens, j))
                          \cap VarsAbove(g, n1, ChainOf(lens, k)) = {}
            /\ Len(g.soft) = Len(f.soft)
            /\ \A i \in 1..Len(f.soft) :
                  /\ g.soft[i][1] = f.soft[i][1]
                  /\ IF i \in reif
                     THEN /\ Len(g.soft[i][2]) = 1
                          /\ -g.soft[i][2][1] \in (f.num_vars + 1)..n1
                     ELSE g.soft[i][2] = f.soft[i][2]
            /\ \A i, k \in reif : i # k => g.soft[i][2] # g.soft[k][2]
            /\ VarsAbove(g, f.num_vars, 1..Len(g.hard))
                  = (f.num_vars + 1)..g.num_vars
            /\ g.sum_soft_weights = f.sum_soft_weights
            /\ top_weight(g) = top_weight(f)

\* to_13wpm has completed on a formula with a soft clause of four literals
\* (reified into a clause of five, split with two fresh variables) and a
\* hard clause of four literals (split with one).
C12_Witness ==
    /\ pc = "called" /\ result.op = "to_13wpm" /\ result.status = "ok"
    /\ Len(result.before.soft) = 1 /\ Len(result.before.soft[1][2]) = 4
    /\ Len(result.before.hard) = 1 /\ Len(result.before.hard[1]) = 4
    /\ result.out.num_vars = result.before.num_vars + 4

=============================================================================
